---- MODULE Spec2Model ----
(***************************************************************************)
(* A model of SPIFFS_ImageReader: a BMP reader that loads 24-bit images    *)
(* from a SPIFFS file into a handle (SPIFFS_Image) made of up to           *)
(* NUM_CANVAS 16-bit canvases of CANVAS_HEIGHT rows each.                  *)
(*                                                                         *)
(* The state is one filesystem holding one file, one reader and one image  *)
(* handle.  loadBMP and bmpDimensions are single-threaded calls that run   *)
(* to completion, so each is one action.  Operands of | in readLE16 and    *)
(* readLE32 are taken left to right, as gcc evaluates them.                *)
(***************************************************************************)
EXTENDS Integers, Sequences, FiniteSets, TLC

\* ------------------------------------------------------------ constants

NUM_CANVAS == 12

CANVAS_HEIGHT == 20

BUFPIXELS == 200

\* sizeof sdbuf
SdbufSize == 3 * BUFPIXELS

\* ImageReturnCode
IMAGE_SUCCESS == "IMAGE_SUCCESS"

IMAGE_ERR_FILE_NOT_FOUND == "IMAGE_ERR_FILE_NOT_FOUND"

IMAGE_ERR_FORMAT == "IMAGE_ERR_FORMAT"

IMAGE_ERR_MALLOC == "IMAGE_ERR_MALLOC"

\* ImageFormat
IMAGE_NONE == "IMAGE_NONE"

IMAGE_16 == "IMAGE_16"

\* a null GFXcanvas16 pointer
NULL == [null |-> TRUE]

\* ------------------------------------------------------------ bounds

\* narrow images have widths 0..MaxW
MaxW == 3

\* the allocation that fails in a call, if any, is one of the first MaxFail
MaxFail == 3

\* ------------------------------------------------------------ integers

Pow2(n) == 2 ^ n

ToU8(x) == x % 256

ToU16(x) == x % 65536

\* conversion to int16_t (two's complement)
ToI16(x) == LET u == x % 65536 IN IF u >= 32768 THEN u - 65536 ELSE u

\* A 32-bit value, int or uint32_t, is kept as the int value of its bit
\* pattern.  The files of the model keep every 32-bit sum and product below
\* 2^31, where int and uint32_t arithmetic give the same bit pattern.
\* x > n for uint32_t x and a small n >= 0
U32Gt(x, n) == x < 0 \/ x > n

\* C integer division truncates toward zero
CDiv(a, b) == IF a >= 0 THEN a \div b ELSE -((-a) \div b)

Min(a, b) == IF a < b THEN a ELSE b

\* ------------------------------------------------------------ the file
\* A file is described by the header fields it was written with; its bytes
\* are ByteAt(f, p) for 0 <= p < f.size.  Rows are stored padded to a
\* multiple of four bytes, three bytes (B, G, R) per pixel, padding 0.

AbsH(f) == IF f.h < 0 THEN -f.h ELSE f.h

\* bytes of one stored row, padding included
Stride(f) == 4 * ((3 * f.w + 3) \div 4)

\* byte k (0 = least significant) of a value stored little-endian
LEByte(v, k) ==
    IF v >= 0 THEN (v \div Pow2(8 * k)) % 256
    ELSE 255 - ((((-v) - 1) \div Pow2(8 * k)) % 256)

\* byte ch (0 = B, 1 = G, 2 = R) of the pixel in stored row k, column c
PixByte(f, k, c, ch) == (89 * k + 111 * c + 53 * ch + 17) % 256

DataByte(f, q) ==
    LET k == q \div Stride(f)
        x == q % Stride(f)
    IN  IF x < 3 * f.w THEN PixByte(f, k, x \div 3, x % 3) ELSE 0

ByteAt(f, p) ==
    IF p >= f.offset THEN DataByte(f, p - f.offset)
    ELSE IF p < 2 THEN LEByte(f.sig, p)
    ELSE IF p < 6 THEN LEByte(f.size, p - 2)
    ELSE IF p < 10 THEN 0
    ELSE IF p < 14 THEN LEByte(f.offset, p - 10)
    ELSE IF p < 18 THEN LEByte(f.hdr, p - 14)
    ELSE IF p < 22 THEN LEByte(f.w, p - 18)
    ELSE IF p < 26 THEN LEByte(f.h, p - 22)
    ELSE IF p < 28 THEN LEByte(f.planes, p - 26)
    ELSE IF p < 30 THEN LEByte(f.depth, p - 28)
    ELSE IF p < 34 THEN LEByte(f.comp, p - 30)
    ELSE IF p < 46 THEN 0
    ELSE IF p < 50 THEN LEByte(f.colors, p - 46)
    ELSE 0

MkFile(sig, hdr, w, h, planes, depth, comp) ==
    LET off == IF hdr > 12 THEN 54 ELSE 30
        f0  == [sig |-> sig, hdr |-> hdr, offset |-> off, w |-> w, h |-> h,
                planes |-> planes, depth |-> depth, comp |-> comp,
                colors |-> 0, size |-> 0]
    IN  [f0 EXCEPT !.size = off + AbsH(f0) * Stride(f0)]

\* ------------------------------------------------------------ File
\* file.read(): the byte at pos, or -1 at the end of the file
FileRead(f, pos) == IF pos < f.size THEN ByteAt(f, pos) ELSE -1

\* the file position after reading n bytes at pos: it stops at the end of
\* the file
Advance(f, pos, n) == IF pos >= f.size THEN pos ELSE Min(pos + n, f.size)

\* the byte a file.read() result puts at its place in file.read() | ... :
\* -1 is all ones
OrByte(v) == IF v = -1 THEN 255 ELSE v

\* readLE16 with the two bytes composed in the other order
readBE16(f, pos) == 256 * OrByte(FileRead(f, pos)) + OrByte(FileRead(f, pos + 1))

\* readLE16 at pos: file.read() | ((uint16_t)file.read() << 8), returned as
\* uint16_t.  A read at or past the end of the file gives -1 and leaves the
\* position where it is, so the value is the same whether pos is the position
\* reached or the position a longer file would have reached.
readLE16(f, pos) == OrByte(FileRead(f, pos)) + 256 * OrByte(FileRead(f, pos + 1))

\* readLE32 at pos: four file.read() composed the same way, returned as
\* uint32_t
readLE32(f, pos) ==
    LET b3 == OrByte(FileRead(f, pos + 3))
    IN  OrByte(FileRead(f, pos)) + 256 * OrByte(FileRead(f, pos + 1))
        + 65536 * OrByte(FileRead(f, pos + 2))
        + Pow2(24) * (IF b3 >= 128 THEN b3 - 256 ELSE b3)

\* ------------------------------------------------------------ SPIFFS_Image

NoCanvas == [i \in 0..(NUM_CANVAS - 1) |-> NULL]

\* new GFXcanvas16(w, h): both uint16_t, the buffer zero-filled.  buf holds
\* the buffer up to the last cell written; every later cell is still 0.
NewCanvas(w, h) == [null |-> FALSE, w |-> ToU16(w), h |-> ToU16(h), buf |-> <<>>]

\* GFXcanvas16::width() and height() return int16_t
CanvasWidth(c) == ToI16(c.w)

CanvasHeight(c) == ToI16(c.h)

Capacity(c) == CanvasWidth(c) * CanvasHeight(c)

\* the value of cell idx (0-based) of a canvas buffer
Cell(c, idx) == IF idx < Len(c.buf) THEN c.buf[idx + 1] ELSE 0

\* number of canvases the handle holds
Held(canvas) == Cardinality({i \in DOMAIN canvas : canvas[i] # NULL})

\* dealloc that frees the canvases and leaves format as it is
deallocKeepsFormat(img) == [img EXCEPT !.canvas = NoCanvas]

\* SPIFFS_Image::dealloc
dealloc(img) == [img EXCEPT !.canvas = NoCanvas, !.format = IMAGE_NONE]

\* SPIFFS_Image::width
width(img) ==
    IF img.format # IMAGE_NONE /\ img.format = IMAGE_16 THEN ToI16(img.w) ELSE 0

\* SPIFFS_Image::height
height(img) ==
    IF img.format # IMAGE_NONE /\ img.format = IMAGE_16 THEN ToI16(img.h) ELSE 0

\* SPIFFS_Image::draw, from slot i on: one tft.drawRGBBitmap per canvas
\* held, recorded as [x, y, slot, w, h] (the buffer passed is that of the
\* slot), y an int16_t that moves down by CANVAS_HEIGHT after each
RECURSIVE DrawLoop(_, _, _, _, _)
DrawLoop(img, i, x, y, blits) ==
    IF ~(i < NUM_CANVAS) THEN blits
    ELSE IF img.canvas[i] # NULL
    THEN DrawLoop(img, i + 1, x, ToI16(y + CANVAS_HEIGHT),
                  Append(blits, [x |-> x, y |-> y, slot |-> i,
                                 w |-> CanvasWidth(img.canvas[i]),
                                 h |-> CanvasHeight(img.canvas[i])]))
    ELSE DrawLoop(img, i + 1, x, y, blits)

\* SPIFFS_Image::draw: the calls of tft.drawRGBBitmap it makes, in order
draw(img, x, y) ==
    IF img.format = IMAGE_16 THEN DrawLoop(img, 0, x, y, <<>>) ELSE <<>>

\* ------------------------------------------------------------ header

BM == 19778

\* coreBMP, the header reads after the signature: file size and creator
\* bytes (ignored) at 2 and 6, then the fields used
ParseHeader(f) ==
    LET headerSize == readLE32(f, 14)
        h32        == readLE32(f, 22)
        long       == U32Gt(headerSize, 12)
    IN  [offset      |-> readLE32(f, 10),
         headerSize  |-> headerSize,
         bmpWidth    |-> readLE32(f, 18),
         bmpHeight   |-> IF h32 < 0 THEN -h32 ELSE h32,
         flip        |-> ~(h32 < 0),
         planes      |-> ToU8(readLE16(f, 26)),
         depth       |-> ToU8(readLE16(f, 28)),
         compression |-> IF long THEN readLE32(f, 30) ELSE 0,
         pos         |-> Advance(f, 0, IF long THEN 54 ELSE 30)]

\* rowSize = ((depth * bmpWidth + 31) / 32) * 4
RowSize(hd) == CDiv(hd.depth * hd.bmpWidth + 31, 32) * 4

\* bmpPos with the bottom-up row counted from bmpHeight, not bmpHeight - 1
BmpPosOffByOne(hd, row) ==
    IF hd.flip
    THEN hd.offset + (hd.bmpHeight - row) * RowSize(hd)
    ELSE hd.offset + row * RowSize(hd)

\* bmpPos of a destination row (loadX = loadY = 0)
BmpPos(hd, row) ==
    IF hd.flip
    THEN hd.offset + (hd.bmpHeight - 1 - row) * RowSize(hd)
    ELSE hd.offset + row * RowSize(hd)

\* ------------------------------------------------------------ allocation
\* The loop that allocates the canvases.  failAt = N > 0 makes the N-th new
\* of the call return NULL; a is [canvas, ok, news] with news the number of
\* calls of new so far.

CanvasHeightOf(remainingHeight) ==
    IF remainingHeight > CANVAS_HEIGHT THEN CANVAS_HEIGHT ELSE remainingHeight

NextRemaining(remainingHeight) == ToU16(remainingHeight - CANVAS_HEIGHT)

RECURSIVE AllocLoop(_, _, _, _, _)
AllocLoop(a, i, remainingHeight, bmpWidth, failAt) ==
    IF ~(a.ok /\ remainingHeight > 0 /\ i < NUM_CANVAS) THEN a
    ELSE LET failed == (a.news + 1 = failAt)
             c      == IF failed THEN NULL
                       ELSE NewCanvas(bmpWidth, CanvasHeightOf(remainingHeight))
         IN  AllocLoop([canvas |-> [a.canvas EXCEPT ![i] = c],
                        ok     |-> ~failed,
                        news   |-> a.news + 1],
                       i + 1, NextRemaining(remainingHeight), bmpWidth, failAt)

AllocCanvases(hd, failAt) ==
    AllocLoop([canvas |-> NoCanvas, ok |-> TRUE, news |-> 0],
              0, ToU16(hd.bmpHeight), hd.bmpWidth, failAt)

\* ------------------------------------------------------------ decode
\* The state of the scanline loop, d:
\*   canvas, cci, cur   img->canvas, currentCanvasIndex, and the slot
\*                      currentCanvas / currentDest point into
\*   destidx, srcidx    as in the code
\*   base, len          sdbuf holds the len file bytes from position base
\*                      (what the last file.read(sdbuf, ...) stored)
\*   pos                file.position()
\*   rowPos             the bmpPos computed for each row so far
\*   nullDeref          a null currentCanvas was dereferenced
\*   badWrite           a pixel was stored outside an allocated buffer
\*   staleRead          a byte of sdbuf that the last read did not store
\*                      was used as pixel data
\*   trap               the handle as it was at the first null dereference

\* ((r & 0xF8) << 8) | ((g & 0xFC) << 3) | (b >> 3)
Color565(r, g, b) == (r \div 8) * 2048 + (g \div 4) * 32 + (b \div 8)

\* sdbuf[i]
SdByte(f, d, i) == IF i < d.len THEN ByteAt(f, d.base + i) ELSE 0

\* file.read(sdbuf, sizeof sdbuf); srcidx = 0
Refill(f, d) ==
    LET to == Advance(f, d.pos, SdbufSize)
    IN  [d EXCEPT !.base = d.pos, !.len = to - d.pos, !.pos = to, !.srcidx = 0]

\* currentDest[destidx] = v
Store(d, v) ==
    LET c == d.canvas[d.cur]
    IN  IF c = NULL \/ d.destidx >= Capacity(c) THEN [d EXCEPT !.badWrite = TRUE]
        ELSE LET gap == [k \in 1..(d.destidx - Len(c.buf)) |-> 0]
                 buf == IF d.destidx < Len(c.buf)
                        THEN [c.buf EXCEPT ![d.destidx + 1] = v]
                        ELSE Append(c.buf \o gap, v)
             IN  [d EXCEPT !.canvas[d.cur].buf = buf]

\* currentCanvas = img->canvas[i]; currentDest = currentCanvas->getBuffer()
Select(d, i, format) ==
    IF d.canvas[i] = NULL /\ ~d.nullDeref
    THEN [d EXCEPT !.cur = i, !.nullDeref = TRUE,
                   !.trap = [canvas |-> d.canvas, format |-> format]]
    ELSE [d EXCEPT !.cur = i]

\* the canvas-full test after a pixel was stored, and the switch to the
\* next canvas
Rollover(d) ==
    LET c == d.canvas[d.cur]
    IN  IF c = NULL THEN [d EXCEPT !.nullDeref = TRUE]
        ELSE IF d.destidx >= Capacity(c)
        THEN LET n == ToU8(d.cci + 1)
                 e == [d EXCEPT !.destidx = 0, !.cci = n]
             IN  IF n < NUM_CANVAS THEN Select(e, n, IMAGE_16) ELSE e
        ELSE d

\* the body of the pixel loop
Pixel(f, d0) ==
    LET d  == IF d0.srcidx >= SdbufSize THEN Refill(f, d0) ELSE d0
        b  == SdByte(f, d, d.srcidx)
        g  == SdByte(f, d, d.srcidx + 1)
        r  == SdByte(f, d, d.srcidx + 2)
        d1 == [d EXCEPT !.srcidx = d.srcidx + 3,
                        !.staleRead = d.staleRead \/ d.srcidx + 2 >= d.len]
        d2 == Store(d1, Color565(r, g, b))
    IN  Rollover([d2 EXCEPT !.destidx = d2.destidx + 1])

\* the pixel loop for col = lo .. hi - 1, the range split in halves to
\* keep the recursion shallow (the test of half.srcidx, always true, makes
\* TLC compute the first half before it descends into the second)
RECURSIVE PixelLoop(_, _, _, _)
PixelLoop(f, d, lo, hi) ==
    IF ~(lo < hi) THEN d
    ELSE IF hi - lo = 1 THEN Pixel(f, d)
    ELSE LET mid  == (lo + hi) \div 2
             half == PixelLoop(f, d, lo, mid)
         IN  IF half.srcidx >= 0 THEN PixelLoop(f, half, mid, hi) ELSE half

\* the seek to the start of a scan line
SeekRow(hd, d, row) ==
    LET bmpPos == BmpPos(hd, row)
        e      == [d EXCEPT !.rowPos = Append(d.rowPos, bmpPos)]
    IN  IF e.pos # bmpPos THEN [e EXCEPT !.pos = bmpPos, !.srcidx = SdbufSize] ELSE e

\* the scanline loop for row = lo .. hi - 1, split in halves likewise; it
\* ends for good once currentCanvasIndex reaches NUM_CANVAS
RECURSIVE RowLoop(_, _, _, _, _)
RowLoop(f, hd, d, lo, hi) ==
    IF ~(d.cci < NUM_CANVAS /\ lo < hi) THEN d
    ELSE IF hi - lo = 1 THEN PixelLoop(f, SeekRow(hd, d, lo), 0, hd.bmpWidth)
    ELSE LET mid == (lo + hi) \div 2
         IN  RowLoop(f, hd, RowLoop(f, hd, d, lo, mid), mid, hi)

\* from "uint8_t currentCanvasIndex = 0" to the end of the scanline loop
Decode(f, hd, canvas) ==
    LET d0 == [canvas |-> canvas, cci |-> 0, cur |-> 0, destidx |-> 0,
               srcidx |-> SdbufSize, base |-> 0, len |-> 0, pos |-> hd.pos,
               rowPos |-> <<>>, nullDeref |-> FALSE, badWrite |-> FALSE,
               staleRead |-> FALSE,
               trap |-> [canvas |-> canvas, format |-> IMAGE_NONE]]
        d1 == Select(d0, 0, IMAGE_NONE)
    IN  IF hd.depth >= 16 THEN RowLoop(f, hd, d1, 0, hd.bmpHeight) ELSE d1

\* ------------------------------------------------------------ SPIFFS_ImageReader

\* what SPIFFS.open gives for a name that is not in the filesystem
NoFile == [absent |-> TRUE]

NoTrace == [news |-> 0, rowPos |-> <<>>, nullDeref |-> FALSE,
            badWrite |-> FALSE, staleRead |-> FALSE]

\* a close that is left out
CloseForgotten(open) == open

\* file.close()
Close(open) == FALSE

\* (planes == 1) && (compression == 0), and depth == 24 inside it
Accepted(hd) == hd.planes = 1 /\ hd.compression = 0 /\ hd.depth = 24

\* SPIFFS_ImageReader::coreBMP.  The result: the status returned, the handle,
\* whether the reader's file is open on return, the file position reached,
\* a trace of the call (the number of calls of new, and what Decode
\* recorded), and the handle as it was at the first null dereference.
coreBMP(img0, f, failAt) ==
    LET img == dealloc(img0)
        sig == readLE16(f, 0)
        hd  == ParseHeader(f)
        a   == AllocCanvases(hd, failAt)
        sized == [img EXCEPT !.w = ToU16(hd.bmpWidth), !.h = ToU16(hd.bmpHeight)]
        d   == Decode(f, hd, a.canvas)
    IN  IF f = NoFile
        THEN [status |-> IMAGE_ERR_FILE_NOT_FOUND, img |-> img, open |-> FALSE,
              pos |-> 0, trace |-> NoTrace, trap |-> img]
        ELSE IF sig # BM
        THEN [status |-> IMAGE_ERR_FORMAT, img |-> img, open |-> Close(TRUE),
              pos |-> Advance(f, 0, 2), trace |-> NoTrace, trap |-> img]
        ELSE IF ~Accepted(hd)
        THEN [status |-> IMAGE_ERR_FORMAT, img |-> img, open |-> Close(TRUE),
              pos |-> hd.pos, trace |-> NoTrace, trap |-> img]
        ELSE IF ~a.ok
        THEN [status |-> IMAGE_ERR_MALLOC,
              img |-> [sized EXCEPT !.canvas = a.canvas],
              open |-> Close(TRUE), pos |-> hd.pos,
              trace |-> [NoTrace EXCEPT !.news = a.news], trap |-> img]
        ELSE [status |-> IMAGE_SUCCESS,
              img |-> [sized EXCEPT !.canvas = d.canvas, !.format = IMAGE_16],
              open |-> Close(TRUE), pos |-> d.pos,
              trace |-> [news |-> a.news, rowPos |-> d.rowPos,
                         nullDeref |-> d.nullDeref, badWrite |-> d.badWrite,
                         staleRead |-> d.staleRead],
              trap |-> [sized EXCEPT !.canvas = d.trap.canvas,
                                     !.format = d.trap.format]]

\* SPIFFS_ImageReader::loadBMP
loadBMP(img0, f, failAt) == coreBMP(img0, f, failAt)

\* an output the call does not write; a written one is <<value>>
Unwritten == <<>>

\* SPIFFS_ImageReader::bmpDimensions; hasW and hasH say whether the width
\* and height pointers are non-null
bmpDimensions(f, hasW, hasH) ==
    LET sig == readLE16(f, 0)
        \* four values read and ignored, then width if asked for, then height
        pw  == IF hasW THEN 22 ELSE 18
        h32 == readLE32(f, pw)
    IN  IF f = NoFile
        THEN [status |-> IMAGE_ERR_FILE_NOT_FOUND, w |-> Unwritten, h |-> Unwritten,
              open |-> Close(FALSE), pos |-> 0]
        ELSE IF sig # BM
        THEN [status |-> IMAGE_ERR_FORMAT, w |-> Unwritten, h |-> Unwritten,
              open |-> Close(TRUE), pos |-> Advance(f, 0, 2)]
        ELSE [status |-> IMAGE_SUCCESS,
              w |-> IF hasW THEN <<readLE32(f, 18)>> ELSE Unwritten,
              h |-> IF hasH THEN <<IF h32 < 0 THEN -h32 ELSE h32>> ELSE Unwritten,
              open |-> Close(TRUE),
              pos |-> Advance(f, 0, IF hasH THEN pw + 4 ELSE pw)]

\* ------------------------------------------------------------ the files

\* image heights around the canvas boundaries
Heights ==
    {0, 1, 2, CANVAS_HEIGHT - 1, CANVAS_HEIGHT, CANVAS_HEIGHT + 1,
     2 * CANVAS_HEIGHT, 2 * CANVAS_HEIGHT + 5}

\* a positive header height stores the rows bottom-up, a negative one top-down
SignedHeights == Heights \cup {-h : h \in Heights}

\* valid 24-bit files, narrow
NarrowFiles ==
    {MkFile(BM, 40, w, h, 1, 24, 0) : w \in 0..MaxW, h \in SignedHeights}

\* valid 24-bit files that fill every canvas, or have more rows than the
\* canvases hold, or more than int16_t holds
TallHeights ==
    {NUM_CANVAS * CANVAS_HEIGHT - 1, NUM_CANVAS * CANVAS_HEIGHT,
     NUM_CANVAS * CANVAS_HEIGHT + 1, 40000}

TallFiles ==
    {MkFile(BM, 40, 1, h, 1, 24, 0) : h \in TallHeights \cup {-h : h \in TallHeights}}
    \cup {MkFile(BM, 40, 2, NUM_CANVAS * CANVAS_HEIGHT, 1, 24, 0)}

\* valid 24-bit files whose rows fill sdbuf, or nearly
WideFiles ==
    {MkFile(BM, 40, w, h, 1, 24, 0) :
        w \in {BUFPIXELS - 1, BUFPIXELS, BUFPIXELS + 1}, h \in {2, -2}}
    \cup {MkFile(BM, 40, 2 * BUFPIXELS - 1, -2, 1, 24, 0)}

\* the signature with its two bytes swapped, 'M' 'B'
MB == 256 * (BM % 256) + (BM \div 256)

\* files of every signature, planes, depth, compression and header size
HeaderFiles ==
    {MkFile(sig, 40, 2, h, pl, dp, cm) :
        sig \in {BM, BM + 1, MB}, h \in {2, -2}, pl \in {0, 1, 257},
        dp \in {8, 16, 24, 32, 280}, cm \in {0, 1}}
    \cup {MkFile(sig, 12, 2, 2, pl, dp, 0) :
        sig \in {BM, BM + 1}, pl \in {0, 1, 257}, dp \in {8, 16, 24, 32, 280}}

\* files that end inside the signature
ShortFiles == {[MkFile(BM, 40, 1, 1, 1, 24, 0) EXCEPT !.size = n] : n \in 0..1}

Files == NarrowFiles \cup TallFiles \cup WideFiles \cup HeaderFiles \cup ShortFiles

\* the name of the file in the filesystem, and a name that is not in it
Present == "/image.bmp"

Missing == "/missing.bmp"

Names == {Present, Missing}

\* ------------------------------------------------------------ state

VARIABLES
    fs,        \* the file the filesystem holds under the name Present
    img,       \* the SPIFFS_Image handle: w, h, canvas, format
    fileOpen,  \* the reader's file is open
    load,      \* the last loadBMP: its file name, the format of the handle
               \* it was given, its status, the file position reached, and
               \* its trace
    dim,       \* the last bmpDimensions: its file name, status, file
               \* position reached, and what it wrote to *width and *height
    drawn      \* the last draw of the handle since it was last given to
               \* loadBMP: its x and y and the blits it made

vars == <<fs, img, fileOpen, load, dim, drawn>>

\* no draw has been made since the last loadBMP
NoDraw == [called |-> FALSE, x |-> 0, y |-> 0, blits |-> <<>>]

\* the positions (x, y) images are drawn at
DrawAt == {<<3, 7>>}

\* no call has been made yet
NoCall == "none"

\* the call stopped at a null dereference and never returned
Trapped == "trapped"

\* the value of a member the constructor does not set
Unset == "unset"

\* SPIFFS.open(name, FILE_READ)
Open(name) == IF name = Present THEN fs ELSE NoFile

\* SPIFFS_Image::SPIFFS_Image sets format and canvas, not w and h
Init ==
    /\ fs \in Files
    /\ img = [w |-> Unset, h |-> Unset, canvas |-> NoCanvas, format |-> IMAGE_NONE]
    /\ fileOpen = FALSE
    /\ load = [name |-> Present, had |-> IMAGE_NONE, status |-> NoCall, pos |-> 0,
               trace |-> NoTrace]
    /\ dim = [name |-> Present, status |-> NoCall, pos |-> 0,
              w |-> Unwritten, h |-> Unwritten]
    /\ drawn = NoDraw

\* the calls of new a load of f makes when none fails
Attempts(f) ==
    LET sig == readLE16(f, 0)
        hd  == ParseHeader(f)
    IN  IF f # NoFile /\ sig = BM /\ Accepted(hd)
        THEN AllocCanvases(hd, 0).news ELSE 0

\* loadBMP(name, img).  The failAt-th new fails (0: none does; a number
\* above the calls the load makes is the same as 0 and is left out).  A null
\* dereference either stops the program or reads a meaningless pointer and
\* goes on.
LoadBMP(name, failAt) ==
    /\ load.status # Trapped
    /\ failAt <= Attempts(Open(name))
    /\ \E r \in {loadBMP(img, Open(name), failAt)} :
         \E trap \in {FALSE, r.trace.nullDeref} :
           /\ img' = IF trap THEN r.trap ELSE r.img
           /\ fileOpen' = IF trap THEN TRUE ELSE r.open
           /\ load' = [name |-> name, had |-> img.format,
                       status |-> IF trap THEN Trapped ELSE r.status,
                       pos |-> r.pos, trace |-> r.trace]
    /\ drawn' = NoDraw
    /\ UNCHANGED <<fs, dim>>

\* bmpDimensions(name, &w, &h), either pointer possibly null
BmpDimensions(name, hasW, hasH) ==
    /\ load.status # Trapped
    /\ \E r \in {bmpDimensions(Open(name), hasW, hasH)} :
           /\ fileOpen' = r.open
           /\ dim' = [name |-> name, status |-> r.status, pos |-> r.pos,
                      w |-> r.w, h |-> r.h]
    /\ UNCHANGED <<fs, img, load, drawn>>

\* img.draw(tft, x, y)
Draw(x, y) ==
    /\ load.status # Trapped
    /\ drawn' = [called |-> TRUE, x |-> x, y |-> y, blits |-> draw(img, x, y)]
    /\ UNCHANGED <<fs, img, fileOpen, load, dim>>

Next ==
    \/ \E name \in Names, failAt \in 0..MaxFail : LoadBMP(name, failAt)
    \/ \E name \in Names, hasW \in BOOLEAN, hasH \in BOOLEAN :
           BmpDimensions(name, hasW, hasH)
    \/ \E at \in DrawAt : Draw(at[1], at[2])

Spec == Init /\ [][Next]_vars

\* ------------------------------------------------------------ claims

ReturnCodes ==
    {IMAGE_SUCCESS, IMAGE_ERR_FILE_NOT_FOUND, IMAGE_ERR_FORMAT, IMAGE_ERR_MALLOC}

\* the first two bytes of the file, read little-endian, are 0x4D42
HasSignature(f) == f.size >= 2 /\ f.sig = BM

\* the file is a 24-bit uncompressed BMP
Valid24(f) == HasSignature(f) /\ f.planes = 1 /\ f.depth = 24 /\ f.comp = 0

\* the header's height, made non-negative
FileH == AbsH(fs)

\* the last loadBMP was of the file and returned IMAGE_SUCCESS
LoadSucceeded == load.name = Present /\ load.status = IMAGE_SUCCESS

SegmentsNeeded(h) == (h + CANVAS_HEIGHT - 1) \div CANVAS_HEIGHT

\* the rows of the image the canvases can hold
RowsHeld == Min(FileH, NUM_CANVAS * CANVAS_HEIGHT)

\* the stored row of the file that holds the image's row
StoredRow(row) == IF fs.h > 0 THEN FileH - 1 - row ELSE row

\* the handle's pixel at (col, row): row is in canvas row / CANVAS_HEIGHT
DestPixel(col, row) ==
    Cell(img.canvas[row \div CANVAS_HEIGHT], (row % CANVAS_HEIGHT) * fs.w + col)

\* ((R & 0xF8) << 8) | ((G & 0xFC) << 3) | (B >> 3) of the bytes the file
\* stores for the pixel at (col, row)
SourcePixel(col, row) ==
    LET b == PixByte(fs, StoredRow(row), col, 0)
        g == PixByte(fs, StoredRow(row), col, 1)
        r == PixByte(fs, StoredRow(row), col, 2)
    IN  (r - (r % 8)) * 256 + (g - (g % 4)) * 8 + (b \div 8)

\* C1: when an allocation fails during loadBMP of a 24-bit image, loadBMP
\* returns IMAGE_ERR_MALLOC, the format is IMAGE_NONE and on return the
\* handle holds no canvas.
C1_AllocFailureReleases ==
    load.status = IMAGE_ERR_MALLOC =>
        /\ img.format = IMAGE_NONE
        /\ \A i \in 0..(NUM_CANVAS - 1) : img.canvas[i] = NULL

\* C2: a 24-bit image of height H, 1 <= H <= NUM_CANVAS * CANVAS_HEIGHT, whose
\* allocations all succeed gets exactly ceil(H / CANVAS_HEIGHT) canvases,
\* canvas i of height min(CANVAS_HEIGHT, H - i * CANVAS_HEIGHT), and every
\* later slot stays null.
C2_SegmentAccounting ==
    (LoadSucceeded /\ 1 <= FileH /\ FileH <= NUM_CANVAS * CANVAS_HEIGHT) =>
        \A i \in 0..(NUM_CANVAS - 1) :
            IF i < SegmentsNeeded(FileH)
            THEN /\ img.canvas[i] # NULL
                 /\ img.canvas[i].h = Min(CANVAS_HEIGHT, FileH - i * CANVAS_HEIGHT)
            ELSE img.canvas[i] = NULL

\* C3: after a successful loadBMP every pixel of the handle is the 5-6-5
\* conversion of the three bytes the file stores for that pixel, for every
\* width and either row order.
C3_PixelExact ==
    LoadSucceeded =>
        \A row \in 0..(RowsHeld - 1) : \A col \in 0..(fs.w - 1) :
            DestPixel(col, row) = SourcePixel(col, row)

\* C4: for a file with the BM signature, loadBMP returns IMAGE_ERR_FORMAT
\* whenever planes is not 1, compression is not 0 or depth is below 16, and
\* does not return it when planes = 1, compression = 0 and depth >= 16;
\* bmpDimensions returns IMAGE_SUCCESS for every such file.
C4_FormatGating ==
    HasSignature(fs) =>
        /\ (load.name = Present /\ load.status \in ReturnCodes) =>
              /\ (fs.planes # 1 \/ fs.comp # 0 \/ fs.depth < 16)
                     => load.status = IMAGE_ERR_FORMAT
              /\ (fs.planes = 1 /\ fs.comp = 0 /\ fs.depth >= 16)
                     => load.status # IMAGE_ERR_FORMAT
        /\ (dim.name = Present /\ dim.status # NoCall) => dim.status = IMAGE_SUCCESS

\* C5: for a name that cannot be opened loadBMP and bmpDimensions return
\* IMAGE_ERR_FILE_NOT_FOUND; for a file whose first two bytes are not the
\* signature both return IMAGE_ERR_FORMAT, read nothing after the signature,
\* allocate no canvas and leave the outputs of bmpDimensions unwritten.
C5_OpenAndSignatureErrors ==
    /\ (load.name = Missing /\ load.status # NoCall)
           => load.status = IMAGE_ERR_FILE_NOT_FOUND
    /\ (dim.name = Missing /\ dim.status # NoCall)
           => dim.status = IMAGE_ERR_FILE_NOT_FOUND
    /\ (~HasSignature(fs) /\ load.name = Present /\ load.status # NoCall) =>
           /\ load.status = IMAGE_ERR_FORMAT
           /\ load.pos <= 2
           /\ load.trace.news = 0
           /\ Held(img.canvas) = 0
    /\ (~HasSignature(fs) /\ dim.name = Present /\ dim.status # NoCall) =>
           /\ dim.status = IMAGE_ERR_FORMAT
           /\ dim.pos <= 2
           /\ dim.w = Unwritten
           /\ dim.h = Unwritten

\* both calls were made on a file with a wrong signature
C5_Witness ==
    /\ fs.size >= 2 /\ fs.sig # BM
    /\ load.name = Present /\ load.status = IMAGE_ERR_FORMAT
    /\ dim.name = Present /\ dim.status = IMAGE_ERR_FORMAT

\* C6: after a loadBMP that returned an error, also one made on a handle that
\* held a loaded image, the format is IMAGE_NONE and width() and height() are
\* 0; the format is IMAGE_16, and width() and height() are the dimensions
\* stored from the header, only after a loadBMP that returned IMAGE_SUCCESS.
C6_HandleStateAfterLoad ==
    /\ load.status \in ReturnCodes \ {IMAGE_SUCCESS} =>
           /\ img.format = IMAGE_NONE
           /\ width(img) = 0
           /\ height(img) = 0
    /\ (load.status # Trapped /\ img.format = IMAGE_16) =>
           /\ load.status = IMAGE_SUCCESS
           /\ img.w = fs.w % 65536 /\ width(img) = ToI16(img.w)
           /\ img.h = FileH % 65536 /\ height(img) = ToI16(img.h)

\* a load failed on a handle that held a loaded image
C6_Witness == load.had = IMAGE_16 /\ load.status = IMAGE_ERR_MALLOC

\* C7: for a valid 24-bit file that loadBMP loaded, the width and height
\* bmpDimensions writes equal the handle's width() and height().
C7_DimensionAgreement ==
    (LoadSucceeded /\ Valid24(fs) /\ dim.name = Present
        /\ dim.w # Unwritten /\ dim.h # Unwritten) =>
        /\ dim.w = <<width(img)>>
        /\ dim.h = <<height(img)>>

\* C8: the offset computed for destination row `row` is
\* offset + (bmpHeight - 1 - row) * rowStride for a positive header height and
\* offset + row * rowStride for a negative one, with
\* rowStride = ((depth * bmpWidth + 31) / 32) * 4; destination row 0 holds the
\* file's last stored row for a positive height, its first for a negative.
C8_RowOrder ==
    (LoadSucceeded /\ fs.depth = 24) =>
        LET rowStride == ((fs.depth * fs.w + 31) \div 32) * 4
            rowPos    == load.trace.rowPos
        IN  /\ \A row \in 0..(Len(rowPos) - 1) :
                   rowPos[row + 1] = fs.offset + StoredRow(row) * rowStride
            /\ Len(rowPos) >= RowsHeld
            /\ FileH >= 1 =>
                   \A col \in 0..(fs.w - 1) :
                       DestPixel(col, 0) = SourcePixel(col, 0)

\* a bottom-up image of several rows was loaded
C8_Witness == LoadSucceeded /\ fs.depth = 24 /\ fs.h >= 2 /\ fs.w >= 1 /\ Len(load.trace.rowPos) >= 2

\* C9: whenever loadBMP or bmpDimensions has returned, with any result, the
\* reader's file is not open.
C9_FileClosed == load.status # Trapped => ~fileOpen

\* both calls have returned for a file that exists
C9_Witness ==
    /\ load.name = Present /\ load.status = IMAGE_SUCCESS
    /\ dim.name = Present /\ dim.status = IMAGE_SUCCESS
    /\ ~fileOpen

\* C10: in the decode loop every pixel is stored inside the buffer of an
\* allocated canvas and no null canvas slot is dereferenced, for every image
\* height.
C10_WriteBounds == ~load.trace.nullDeref /\ ~load.trace.badWrite

\* the heights of the canvases in slots 0 .. n - 1, added up
RECURSIVE HeightSum(_, _)
HeightSum(canvas, n) ==
    IF n = 0 THEN 0
    ELSE HeightSum(canvas, n - 1)
         + (IF canvas[n - 1] = NULL THEN 0 ELSE CanvasHeight(canvas[n - 1]))

\* C11: in every state that loadBMP calls on one handle reach, if the format
\* is IMAGE_16 then the canvases held fill a non-empty prefix of the slots,
\* all but possibly the last have height CANVAS_HEIGHT, and their heights add
\* up to the height height() returns, for every header height, also those
\* above NUM_CANVAS * CANVAS_HEIGHT.
C11_HandleInvariant ==
    (load.status # Trapped /\ img.format = IMAGE_16) =>
        LET n == Held(img.canvas)
        IN  /\ n >= 1
            /\ \A i \in 0..(n - 1) : img.canvas[i] # NULL
            /\ \A i \in 0..(n - 2) : img.canvas[i].h = CANVAS_HEIGHT
            /\ HeightSum(img.canvas, NUM_CANVAS) = height(img)

\* the slot of the k-th canvas held (k = 1 for the first)
HeldSlot(canvas, k) ==
    CHOOSE s \in 0..(NUM_CANVAS - 1) :
        /\ canvas[s] # NULL
        /\ Cardinality({j \in 0..(s - 1) : canvas[j] # NULL}) = k - 1

\* the blits of the last draw that put something on sink row sy
BlitsOnRow(sy) ==
    {k \in 1..Len(drawn.blits) :
        drawn.blits[k].y <= sy /\ sy < drawn.blits[k].y + drawn.blits[k].h}

\* C12: after a successful loadBMP of an image of height
\* H <= NUM_CANVAS * CANVAS_HEIGHT, draw(tft, x, y) makes one blit per canvas
\* held, in slot order, the i-th at (x, y + i * CANVAS_HEIGHT) with that
\* canvas's width and height, so that image row r is put exactly once on sink
\* row y + r for r in 0 .. H - 1 and no row outside y .. y + H - 1 is
\* blitted; with format IMAGE_NONE draw makes no blit.
C12_DrawPlacement ==
    drawn.called =>
        /\ img.format = IMAGE_NONE => drawn.blits = <<>>
        /\ (LoadSucceeded /\ FileH <= NUM_CANVAS * CANVAS_HEIGHT) =>
               /\ Len(drawn.blits) = Held(img.canvas)
               /\ \A k \in 1..Len(drawn.blits) :
                      LET b == drawn.blits[k]
                          c == img.canvas[b.slot]
                      IN  /\ b.slot = HeldSlot(img.canvas, k)
                          /\ b.x = drawn.x
                          /\ b.y = drawn.y + (k - 1) * CANVAS_HEIGHT
                          /\ b.w = CanvasWidth(c) /\ b.h = CanvasHeight(c)
                          /\ \A sy \in b.y..(b.y + b.h - 1) :
                                 drawn.y <= sy /\ sy < drawn.y + FileH
               /\ \A r \in 0..(FileH - 1) :
                      /\ Cardinality(BlitsOnRow(drawn.y + r)) = 1
                      /\ \A k \in BlitsOnRow(drawn.y + r) :
                             /\ drawn.blits[k].slot = r \div CANVAS_HEIGHT
                             /\ drawn.y + r - drawn.blits[k].y = r % CANVAS_HEIGHT

====
